---- MODULE Spec2Model ----
(***************************************************************************)
(* Model of the plagiarism-analysis pipeline (src/src/graph.py), its       *)
(* semantic matcher and aggregate scorer (src/src/similarity.py) and the   *)
(* explainability formatter (src/src/utils.py).                            *)
(*                                                                         *)
(* Numbers.  The code computes in floats; the model computes the same      *)
(* quantities exactly, in fixed point:                                     *)
(*   - a FAISS distance and the similarity 1 - distance: units of 1/10000  *)
(*   - a recorded similarity_score (round(similarity, 3)): units of 1/1000 *)
(*   - a percentage rounded to one decimal: units of 1/10 percent          *)
(* round(x, n) is Python's round-half-even.                                *)
(***************************************************************************)
EXTENDS Integers, Sequences, FiniteSets, TLC

VARIABLES
    state,      \* the PlagiarismAnalysisState dict of one run (keys appear as stages write them)
    pc,         \* the graph node that runs next, "END", or "failed"
    error,      \* the exception that ended the run ("none" while none was raised)
    llm_calls,  \* arguments of every generate_research_recommendations invocation so far
    args,       \* arguments of a direct call of a matcher / scorer method
    ret,        \* what that call returned or raised
    files       \* files outside the context: data.txt and the upload directories

vars == <<state, pc, error, llm_calls, args, ret, files>>

-----------------------------------------------------------------------------
(* Bounds of the model *)

\* total number of matches in a mapping handed to the scorer
MaxTotalMatches == 3

\* candidate urls
Urls == <<"u1", "u2", "u3">>

-----------------------------------------------------------------------------
(* Arithmetic helpers *)

RECURSIVE SumSeq(_)
SumSeq(s) == IF s = <<>> THEN 0 ELSE Head(s) + SumSeq(Tail(s))

Max(a, b) == IF a >= b THEN a ELSE b

\* a / b rounded to the nearest integer, ties to even (a >= 0, b > 0)
RoundDiv(a, b) ==
    LET q == a \div b
        r == a % b
    IN  IF 2 * r < b THEN q
        ELSE IF 2 * r > b THEN q + 1
        ELSE IF q % 2 = 0 THEN q ELSE q + 1

\* Optional numbers: None and a number
None == <<>>
Num(x) == <<x>>
IsNone(v) == v = <<>>
Val(v) == v[1]

SeqToSet(s) == {s[i] : i \in DOMAIN s}

\* s[:n]
Take(s, n) == SubSeq(s, 1, IF Len(s) < n THEN Len(s) ELSE n)

-----------------------------------------------------------------------------
(* Match records (the dicts cross_similarity_analysis appends) *)

\* match_strength of an unrounded similarity (units of 1/10000)
match_strength(similarity) ==
    IF similarity > 8500 THEN "STRONG"
    ELSE IF similarity > 7500 THEN "MEDIUM"
    ELSE "WEAK"

-----------------------------------------------------------------------------
(* Concepts, their FAISS texts and the embedding                            *)
(* A text is the record of the four parts embed_concepts joins with " | ". *)
(* description stands for the description string and fixes where the text  *)
(* lies in the embedding space: equal texts embed equally.                  *)

Concept(name, type, description, section, confidence) ==
    [name |-> name, type |-> type, description |-> description,
     section |-> section, confidence |-> confidence]

\* f"{c.name} | {c.description} | section:{c.section} | type:{c.type.value}"
concept_text(c) ==
    [name |-> c.name, description |-> c.description,
     section |-> c.section, type |-> c.type]

\* names, sections and types whose text contains "method" or "algorithm"
MentionsMethodOrAlgorithm ==
    {"sorting algorithm", "methodology", "methods", "algorithm"}

\* "method" in page_content.lower() or "algorithm" in page_content.lower()
section_tag(text) ==
    IF \/ text.name \in MentionsMethodOrAlgorithm
       \/ text.section \in MentionsMethodOrAlgorithm
       \/ text.type \in MentionsMethodOrAlgorithm
    THEN "methodology" ELSE "other"

Abs(x) == IF x < 0 THEN -x ELSE x

\* distances (units of 1/10000) of two texts 0, 1, 2, 3, 4 steps apart:
\* similarities 1.0, 0.88, 0.8504, 0.7504 and 0.6
DistanceTable == <<0, 1200, 1496, 2496, 4000>>

\* the distance FAISS reports between a query text and a stored text
Distance(query, doc) ==
    DistanceTable[Abs(query.description - doc.description) + 1]

\* k of similarity_search_with_score
SearchK == 8

\* matches kept per paper
MaxMatchesPerPaper == 10

RECURSIVE InsertByDistance(_, _)
InsertByDistance(sorted, x) ==
    IF sorted = <<>> THEN <<x>>
    ELSE IF x.distance < Head(sorted).distance THEN <<x>> \o sorted
    ELSE <<Head(sorted)>> \o InsertByDistance(Tail(sorted), x)

RECURSIVE SortByDistance(_)
SortByDistance(s) ==
    IF s = <<>> THEN <<>>
    ELSE InsertByDistance(SortByDistance(SubSeq(s, 1, Len(s) - 1)), s[Len(s)])

\* store.similarity_search_with_score(query, k): the k nearest stored texts
\* with their distances, nearest first
similarity_search_with_score(store, query, k) ==
    Take(SortByDistance([i \in DOMAIN store |->
            [doc |-> store[i], distance |-> Distance(query, store[i])]]), k)

-----------------------------------------------------------------------------
(* AdvancedSemanticMatcher: embed_concepts and cross_similarity_analysis    *)
(* A matcher is [user_store, internet_stores]; a store is the sequence of  *)
(* its texts; user_store is None until user concepts were embedded.        *)

new_matcher == [user_store |-> None, internet_stores |-> <<>>]

\* d[key] = value on an insertion-ordered dict of [url, store] entries
SetStore(stores, key, value) ==
    IF \E i \in DOMAIN stores : stores[i].url = key
    THEN [i \in DOMAIN stores |->
            IF stores[i].url = key THEN [url |-> key, store |-> value] ELSE stores[i]]
    ELSE Append(stores, [url |-> key, store |-> value])

embed_concepts(matcher, concepts, identifier) ==
    IF concepts = <<>> THEN matcher
    ELSE LET texts == [i \in DOMAIN concepts |-> concept_text(concepts[i])]
         IN  IF identifier = "user"
             THEN [matcher EXCEPT !.user_store = Num(texts)]
             ELSE [matcher EXCEPT !.internet_stores = SetStore(@, identifier, texts)]

\* similarity = max(0.0, 1 - distance)
similarity_of(distance) == Max(0, 10000 - distance)

\* the dict appended for one search hit that passed the threshold
match_record(user_doc, hit) ==
    [user_concept |-> user_doc,
     matched_concept |-> hit.doc,
     similarity_score |-> RoundDiv(similarity_of(hit.distance), 10),
     section |-> section_tag(user_doc),
     match_strength |-> match_strength(similarity_of(hit.distance))]

\* the inner loop: the hits of one user text that are not below the threshold
RECURSIVE matches_of_hits(_, _, _)
matches_of_hits(user_doc, hits, threshold) ==
    IF hits = <<>> THEN <<>>
    ELSE IF similarity_of(Head(hits).distance) < threshold
         THEN matches_of_hits(user_doc, Tail(hits), threshold)
         ELSE <<match_record(user_doc, Head(hits))>>
                \o matches_of_hits(user_doc, Tail(hits), threshold)

\* the loop over user_docs for one store: every match, in the order appended
RECURSIVE matches_for_store(_, _, _)
matches_for_store(user_docs, store, threshold) ==
    IF user_docs = <<>> THEN <<>>
    ELSE matches_of_hits(Head(user_docs),
                         similarity_search_with_score(store, Head(user_docs), SearchK),
                         threshold)
            \o matches_for_store(Tail(user_docs), store, threshold)

\* results[paper_id] = matches[:10]
limit_matches(matches) == Take(matches, MaxMatchesPerPaper)

\* the call's outcome: ValueError without a user store, else the mapping
cross_similarity_analysis(matcher, similarity_threshold) ==
    IF IsNone(matcher.user_store)
    THEN [status |-> "raised", error |-> "ValueError"]
    ELSE [status |-> "returned",
          value |-> [i \in DOMAIN matcher.internet_stores |->
                [url |-> matcher.internet_stores[i].url,
                 matches |-> limit_matches(
                    matches_for_store(Val(matcher.user_store),
                                      matcher.internet_stores[i].store,
                                      similarity_threshold))]]]

-----------------------------------------------------------------------------
(* AdvancedSemanticMatcher.compute_aggregate_scores *)
(* A mapping Dict[str, List[Dict]] is a sequence of [url, matches] entries *)
(* in insertion order, with distinct urls.                                 *)

Keys(mapping) == {mapping[i].url : i \in DOMAIN mapping}

Lookup(mapping, url) ==
    LET i == CHOOSE j \in DOMAIN mapping : mapping[j].url = url
    IN  mapping[i].matches

\* the isinstance filter: a dict whose similarity_score is a number
clean_matches(matches) ==
    SelectSeq(matches, LAMBDA m : m.similarity_score \in Int)

\* a variant that weights every section alike
section_weight_x2_unweighted(m) == 2

\* weight = 1.5 if section == "methodology" else 1.0, in halves
section_weight_x2(m) == IF m.section = "methodology" THEN 3 ELSE 2

\* sum of similarity_score * weight over the clean matches, units of 1/2000
RECURSIVE weighted_sum(_)
weighted_sum(ms) ==
    IF ms = <<>> THEN 0
    ELSE Head(ms).similarity_score * section_weight_x2(Head(ms)) + weighted_sum(Tail(ms))

\* sum(1 for m in clean_matches if m["similarity_score"] > 0.85)
high_risk_count(ms) ==
    Len(SelectSeq(ms, LAMBDA m : m.similarity_score > 850))

\* avg_similarity = mean(weighted_scores) is w / (2000 * n)
risk_category(w, n) ==
    IF w > 1800 * n THEN "CRITICAL"
    ELSE IF w > 1600 * n THEN "HIGH"
    ELSE IF w > 1400 * n THEN "MEDIUM"
    ELSE "LOW"

\* the paper_scores[paper_id] record of one candidate with clean matches cm
paper_score(cm) ==
    LET w == weighted_sum(cm)
        n == Len(cm)
    IN  [overlap_percentage |-> RoundDiv(w, 2 * n),
         high_risk_matches  |-> high_risk_count(cm),
         total_matches      |-> n,
         risk_category      |-> risk_category(w, n)]

\* the entries the loop does not skip ("if not matches: continue",
\* "if not clean_matches: continue")
scored_entries(mapping) ==
    SelectSeq(mapping, LAMBDA e : e.matches # <<>> /\ clean_matches(e.matches) # <<>>)

\* a variant that scores a candidate with no match as zero overlap
paper_scores_empty_as_zero(mapping) ==
    [u \in Keys(mapping) |->
        LET cm == clean_matches(Lookup(mapping, u))
        IN  IF cm = <<>>
            THEN [overlap_percentage |-> 0, high_risk_matches |-> 0,
                  total_matches |-> 0, risk_category |-> "LOW"]
            ELSE paper_score(cm)]

\* paper_scores after the loop: url -> score record
paper_scores(mapping) ==
    LET kept == scored_entries(mapping)
    IN  [u \in Keys(kept) |-> paper_score(clean_matches(Lookup(kept, u)))]

\* a variant of the "no papers matched" result that reports zeros
no_signal_zeros ==
    [overall_overlap_pct |-> Num(0),
     novelty_score |-> Num(1000),
     total_papers_analyzed |-> 0,
     total_high_risk_matches |-> 0,
     paper_breakdown |-> << >>,
     risk_assessment |-> "LOW"]

\* the result returned when paper_scores is empty
no_signal_result ==
    [overall_overlap_pct |-> None,
     novelty_score |-> None,
     total_papers_analyzed |-> 0,
     total_high_risk_matches |-> 0,
     paper_breakdown |-> << >>,
     risk_assessment |-> "UNKNOWN"]

RECURSIVE SumOver(_, _, _)
SumOver(f, S, field) ==
    IF S = {} THEN 0
    ELSE LET x == CHOOSE y \in S : TRUE
         IN  f[x][field] + SumOver(f, S \ {x}, field)

\* overall_overlap = total / m (tenths of a percent), compared unrounded
risk_assessment(total, m) ==
    IF total > 600 * m THEN "HIGH"
    ELSE IF total > 300 * m THEN "MEDIUM"
    ELSE "LOW"

\* a variant that reports 100 - overall_overlap without the lower clamp
novelty_of_unclamped(total, m) == RoundDiv(1000 * m - total, m)

\* round(max(0.0, 100.0 - overall_overlap), 1)
novelty_of(total, m) ==
    IF total >= 1000 * m THEN 0 ELSE RoundDiv(1000 * m - total, m)

compute_aggregate_scores(mapping) ==
    LET ps == paper_scores(mapping)
        m == Cardinality(DOMAIN ps)
        total == SumOver(ps, DOMAIN ps, "overlap_percentage")
    IN  IF m = 0 THEN no_signal_result
        ELSE [overall_overlap_pct |-> Num(RoundDiv(total, m)),
              novelty_score |-> Num(novelty_of(total, m)),
              total_papers_analyzed |-> m,
              total_high_risk_matches |-> SumOver(ps, DOMAIN ps, "high_risk_matches"),
              paper_breakdown |-> ps,
              risk_assessment |-> risk_assessment(total, m)]

-----------------------------------------------------------------------------
(* utils.format_explainability *)

\* concept[:80].strip(): the first 80 characters keep the name and the
\* description and lose the section and type at the end of the text
phrase_of(text) == [name |-> text.name, description |-> text.description]

\* m.get("is_false_positive", False)
is_false_positive(m) ==
    "is_false_positive" \in DOMAIN m /\ m["is_false_positive"] = TRUE

\* a user_concept that is the empty string
EmptyText == [name |-> "", description |-> "", section |-> "", type |-> ""]

\* float(match.get("similarity_score", 0.5)), in thousandths
weight_of(m) == IF "similarity_score" \in DOMAIN m THEN m.similarity_score ELSE 500

\* a variant of the key that leaves the index out
explain_key_phrase_only(idx, phrase) == <<phrase>>

\* key = f"{idx}_{phrase}": idx is one digit (0..9), so the text after the
\* first "_" is the phrase and the key determines both
explain_key(idx, phrase) == <<idx, phrase>>

\* a variant of the result for no match that reports a placeholder phrase
placeholder_explainability ==
    [top_contributing_phrases |-> <<"none">>,
     attention_weights |-> << >>,
     false_positives_filtered |-> 0]

\* the Explainability returned by the "if not matches" branch
empty_explainability ==
    [top_contributing_phrases |-> << >>,
     attention_weights |-> << >>,
     false_positives_filtered |-> 0]

format_explainability(matches) ==
    IF matches = <<>> THEN empty_explainability ELSE
    LET top == Take(matches, 10)
        indexed == [i \in DOMAIN top |-> [idx |-> i - 1, m |-> top[i]]]
        \* "if not concept: continue"
        contributing == SelectSeq(indexed, LAMBDA e : e.m.user_concept # EmptyText)
        key(j) == explain_key(contributing[j].idx,
                              phrase_of(contributing[j].m.user_concept))
        \* weights[key] = similarity: a later entry with the same key overwrites
        last(k) == CHOOSE j \in DOMAIN contributing :
                        /\ key(j) = k
                        /\ \A l \in DOMAIN contributing : l > j => key(l) # k
    IN  [top_contributing_phrases |->
            [j \in DOMAIN contributing |-> phrase_of(contributing[j].m.user_concept)],
         attention_weights |->
            [k \in {key(j) : j \in DOMAIN contributing} |->
                weight_of(contributing[last(k)].m)],
         false_positives_filtered |->
            Cardinality({j \in DOMAIN contributing :
                            is_false_positive(contributing[j].m)})]

-----------------------------------------------------------------------------
(* processors: load_paper_docs and extract_paper_structure_from_docs       *)
(* The loaded pages are a record of what the code reads from them: how     *)
(* many pages there are, which section headings are followed by at least   *)
(* 50 words, and whether the text holds an equation or a figure caption.   *)

\* pages of an uploaded document
MaxPages == 1

SectionHeadings == {"abstract", "methodology"}

Documents ==
    {[pages |-> 0, headings |-> {}, equations |-> 0, figures |-> 0]}
    \cup [pages : 1..MaxPages, headings : SUBSET SectionHeadings,
          equations : {0, 1}, figures : {0, 1}]

extract_title(docs) ==
    IF docs.pages = 0 THEN "Untitled Research Paper" ELSE "A Study of Attention"

\* the section names kept, with the "full_text" fallback when none was found
section_names(docs) ==
    IF docs.headings = {} THEN {"full_text"} ELSE docs.headings

\* the section whose content holds the equations and figure captions
body_section(docs) ==
    IF "methodology" \in docs.headings THEN "methodology"
    ELSE IF "abstract" \in docs.headings THEN "abstract"
    ELSE "full_text"

extract_paper_structure_from_docs(docs) ==
    [title |-> extract_title(docs),
     sections |->
        [h \in section_names(docs) |->
            [content |-> [heading |-> h,
                          equations |-> IF h = body_section(docs) THEN docs.equations ELSE 0,
                          figures |-> IF h = body_section(docs) THEN docs.figures ELSE 0]]]]

-----------------------------------------------------------------------------
(* search_tools: AdvancedResearchSearcher.search_research_papers *)

\* config.MAX_INTERNET_PAPERS
MAX_INTERNET_PAPERS == 5

Paper(url, source, snippet) ==
    [title |-> "paper", url |-> url, snippet |-> snippet, source |-> source]

\* a snippet: whether it mentions "cnn", and its text
Snippet(cnn, text) == [cnn |-> cnn, text |-> text]

\* What a provider does: the candidates appended to papers before it
\* returned or raised.  raised is "no", "call" (the provider call raised) or
\* "collect" (an exception while the results were being appended).
ArxivOutcomes ==
    {[raised |-> "no", appended |-> <<>>],
     [raised |-> "no", appended |-> <<Paper("u1", "arxiv", Snippet(FALSE, 1))>>],
     [raised |-> "no", appended |-> <<Paper("u1", "arxiv", Snippet(FALSE, 1)),
                                      Paper("u2", "arxiv", Snippet(TRUE, 3))>>],
     [raised |-> "no", appended |-> <<Paper("", "arxiv", Snippet(FALSE, 1))>>],
     [raised |-> "call", appended |-> <<>>],
     [raised |-> "collect", appended |-> <<Paper("u2", "arxiv", Snippet(TRUE, 3))>>],
     [raised |-> "no", appended |-> <<Paper("u1", "arxiv", Snippet(FALSE, 1)),
                                      Paper("u2", "arxiv", Snippet(TRUE, 3)),
                                      Paper("u4", "arxiv", Snippet(FALSE, 2)),
                                      Paper("u2", "arxiv", Snippet(FALSE, 4))>>],
     [raised |-> "collect", appended |-> <<Paper("u1", "arxiv", Snippet(FALSE, 1)),
                                           Paper("u3", "arxiv", Snippet(TRUE, 3))>>]}

TavilyOutcomes ==
    {[raised |-> "no", appended |-> <<>>],
     [raised |-> "no", appended |-> <<Paper("u1", "web", Snippet(TRUE, 2))>>],
     [raised |-> "no", appended |-> <<Paper("u3", "web", Snippet(FALSE, 4)),
                                      Paper("u1", "web", Snippet(TRUE, 2))>>],
     [raised |-> "call", appended |-> <<>>],
     [raised |-> "collect", appended |-> <<Paper("u3", "web", Snippet(FALSE, 4))>>],
     [raised |-> "no", appended |-> <<Paper("u3", "web", Snippet(FALSE, 4)),
                                      Paper("u1", "web", Snippet(TRUE, 2)),
                                      Paper("u5", "web", Snippet(FALSE, 1)),
                                      Paper("u6", "web", Snippet(TRUE, 3)),
                                      Paper("u7", "web", Snippet(FALSE, 2))>>],
     [raised |-> "no", appended |-> <<Paper("", "web", Snippet(FALSE, 4)),
                                      Paper("u5", "web", Snippet(FALSE, 1))>>]}

\* a variant of the loop that drops empty urls only
keep_nonempty_urls(papers, seen) == SelectSeq(papers, LAMBDA p : p.url # "")

\* the dedup loop: first paper of every non-empty url, in order
RECURSIVE dedup_by_url(_, _)
dedup_by_url(papers, seen) ==
    IF papers = <<>> THEN <<>>
    ELSE IF Head(papers).url # "" /\ Head(papers).url \notin seen
         THEN <<Head(papers)>> \o dedup_by_url(Tail(papers), seen \cup {Head(papers).url})
         ELSE dedup_by_url(Tail(papers), seen)

\* the files before any request: no data.txt, no upload directory
no_files ==
    [data_txt |-> [content |-> <<>>, writers |-> {}], temp_dirs |-> {}]

\* open("data.txt", "w") and f.write(str(arxiv_docs)) once arxiv.invoke has
\* returned: the file of the working directory holds the documents of the
\* last request that wrote it; writers are the requests that wrote it
write_data_txt(fs, session_id, arxiv) ==
    IF arxiv.raised = "call" THEN fs
    ELSE [fs EXCEPT !.data_txt =
            [content |-> <<arxiv.appended>>,
             writers |-> fs.data_txt.writers \cup {session_id}]]

search_research_papers(arxiv, tavily) ==
    Take(dedup_by_url(arxiv.appended \o tavily.appended, {}), MAX_INTERNET_PAPERS)

-----------------------------------------------------------------------------
(* agents: extract_advanced_concepts and generate_research_recommendations *)

\* config.MAX_CONCEPTS
MAX_CONCEPTS == 40

\* the values of the ConceptType enum
ConceptTypeValues ==
    {"algorithm", "technique", "domain", "metric", "dataset",
     "equation", "figure", "citation", "table"}

\* str.upper() on the type strings a response carries
Upper(str) ==
    CASE str \in {"algorithm", "ALGORITHM"} -> "ALGORITHM"
      [] str \in {"technique", "TECHNIQUE"} -> "TECHNIQUE"
      [] OTHER -> "GENRE"

\* entries of a JSON array in a response to the extraction prompt:
\* name and type are a string or "null"; a non-object entry has kind "string"
RawEntries ==
    {[kind |-> "object", name |-> "attention", type |-> "ALGORITHM"],
     [kind |-> "object", name |-> "attention", type |-> "technique"],
     [kind |-> "object", name |-> "attention", type |-> "genre"],
     [kind |-> "object", name |-> "null", type |-> "ALGORITHM"],
     [kind |-> "object", name |-> "attention", type |-> "null"],
     [kind |-> "string", name |-> "null", type |-> "null"]}

\* entries in one JSON array
MaxRawConcepts == 2

\* response.content of the extraction prompt: empty, prose, or JSON
ExtractionResponses ==
    {[content |-> "empty"], [content |-> "prose"], [content |-> "json_object"]}
    \cup {[content |-> "json_array", entries |-> es] :
            es \in UNION {[1..n -> RawEntries] : n \in 0..MaxRawConcepts}}

\* safe_json_parse(content) or []: the entries of an array, and the empty
\* list for an empty or unparsable content (a JSON object is no list)
raw_concepts_of(response) ==
    IF response.content = "json_array" THEN response.entries ELSE <<>>

\* building one Concept from a raw entry: "raises" (AttributeError, not
\* caught), "dropped" (ValueError, caught) or "built"
entry_outcome(e) ==
    IF e.kind # "object" THEN "raises"
    ELSE IF e.name = "null" THEN "raises"
    ELSE IF e.type = "null" THEN "raises"
    ELSE IF Upper(e.type) \notin ConceptTypeValues THEN "dropped"
    ELSE "built"

\* extract_equations(full_text) and extract_figures_tables(full_text)
multimodal_concepts(sections) ==
    LET eq == \E h \in DOMAIN sections : sections[h].content.equations > 0
        fig == \E h \in DOMAIN sections : sections[h].content.figures > 0
    IN  (IF eq THEN <<Concept("Equation: softmax", "equation", 0, "methodology", 92)>>
         ELSE <<>>)
        \o (IF fig THEN <<Concept("Figure 1", "figure", 2, "results", 85)>> ELSE <<>>)

\* the dedup dict: per (name.lower(), type) the first concept of the highest
\* confidence, in the order the keys were first seen
RECURSIVE dedup_concepts(_, _)
dedup_concepts(concepts, kept) ==
    IF concepts = <<>> THEN kept
    ELSE LET c == Head(concepts)
             same(k) == k.name = c.name /\ k.type = c.type
         IN  IF \E i \in DOMAIN kept : same(kept[i])
             THEN dedup_concepts(Tail(concepts),
                    [i \in DOMAIN kept |->
                        IF same(kept[i]) /\ c.confidence > kept[i].confidence
                        THEN c ELSE kept[i]])
             ELSE dedup_concepts(Tail(concepts), Append(kept, c))

RECURSIVE InsertByConfidence(_, _)
InsertByConfidence(sorted, c) ==
    IF sorted = <<>> THEN <<c>>
    ELSE IF c.confidence > Head(sorted).confidence THEN <<c>> \o sorted
    ELSE <<Head(sorted)>> \o InsertByConfidence(Tail(sorted), c)

\* sorted(..., key=confidence, reverse=True): stable
RECURSIVE sort_by_confidence(_)
sort_by_confidence(s) ==
    IF s = <<>> THEN <<>>
    ELSE InsertByConfidence(sort_by_confidence(SubSeq(s, 1, Len(s) - 1)), s[Len(s)])

\* the call's outcome for a response of the text generation service
extract_advanced_concepts(sections, response) ==
    LET raw == raw_concepts_of(response)
    IN  IF response.content = "json_object"
        THEN [status |-> "raised", error |-> "TypeError"]
        ELSE LET first == Take(raw, 40)
                 built == SelectSeq(first, LAMBDA e : entry_outcome(e) = "built")
                 text_concepts ==
                    [i \in DOMAIN built |->
                        Concept(built[i].name, Upper(built[i].type), 1, "unknown", 70)]
             IN  IF \E i \in DOMAIN first : entry_outcome(first[i]) = "raises"
                 THEN [status |-> "raised", error |-> "AttributeError"]
                 ELSE [status |-> "returned",
                       value |-> Take(sort_by_confidence(
                                    dedup_concepts(text_concepts
                                        \o multimodal_concepts(sections), <<>>)),
                                      MAX_CONCEPTS)]

\* the matches quoted in the recommendation prompt:
\* [m for m in clean_matches if m.get("similarity_score", 0) > 0.8][:3]
high_risk_matches(matches) ==
    Take(SelectSeq(matches, LAMBDA m : m.similarity_score > 800), 3)

\* the lists the text generation service's answer is split into (at most 5)
RecommendationAnswers == {<<>>, <<"Cite the overlapping work">>}

-----------------------------------------------------------------------------
(* graph: the five nodes over the shared PlagiarismAnalysisState *)

\* the dict a run starts from (api/routes.py builds it)
initial_state ==
    [user_paper_path |-> "paper.pdf", session_id |-> "s", timestamp |-> "t"]

\* state[k] = v for every field of the record writes
Write(st, writes) == writes @@ st

\* exceptions raised by a collaborator, not by the code of a stage
CollaboratorErrors == {"LoaderError", "LLMError", "EmbeddingError"}

\* a workflow whose extract node hands control back to the search node
edges_with_cycle ==
    [agent1_parse |-> "agent2_search", agent2_search |-> "agent3_extract",
     agent3_extract |-> "agent2_search", agent4_match |-> "agent5_report",
     agent5_report |-> "END"]

\* create_complete_workflow: add_edge(node, successor), one edge per node
edges ==
    [agent1_parse |-> "agent2_search", agent2_search |-> "agent3_extract",
     agent3_extract |-> "agent4_match", agent4_match |-> "agent5_report",
     agent5_report |-> "END"]

agent1_document_parser ==
    /\ pc = "agent1_parse"
    /\ \E docs \in Documents, loaded \in BOOLEAN :
        IF loaded
        THEN /\ state' = Write(state,
                    [raw_documents |-> docs,
                     user_paper_struct |-> extract_paper_structure_from_docs(docs),
                     current_step |-> "research_search",
                     progress |-> 20])
             /\ pc' = edges[pc]
             /\ error' = error
        ELSE /\ pc' = "failed"
             /\ error' = "LoaderError"
             /\ state' = state
    /\ UNCHANGED <<llm_calls, args, ret, files>>

\* sections.get("abstract", {}).get("content", "")[:250]
abstract_of(struct) ==
    IF "abstract" \in DOMAIN struct.sections
    THEN struct.sections["abstract"].content.heading
    ELSE ""

\* a search stage that also replaces the documents the parse stage loaded
searched_state_reloading(st, arxiv, tavily) ==
    Write(st,
        [raw_documents |-> <<>>,
         search_query |-> [title |-> st.user_paper_struct.title,
                           abstract |-> abstract_of(st.user_paper_struct)],
         similar_papers |-> Take(search_research_papers(arxiv, tavily), 5),
         current_step |-> "concept_extraction",
         progress |-> 40])

\* the state agent2 returns when the providers behave as arxiv and tavily
searched_state(st, arxiv, tavily) ==
    Write(st,
        [search_query |-> [title |-> st.user_paper_struct.title,
                           abstract |-> abstract_of(st.user_paper_struct)],
         similar_papers |-> Take(search_research_papers(arxiv, tavily), 5),
         current_step |-> "concept_extraction",
         progress |-> 40])

agent2_internet_research ==
    /\ pc = "agent2_search"
    /\ \E arxiv \in ArxivOutcomes, tavily \in TavilyOutcomes :
        /\ state' = searched_state(state, arxiv, tavily)
        /\ files' = write_data_txt(files, state.session_id, arxiv)
    /\ pc' = edges[pc]
    /\ UNCHANGED <<error, llm_calls, args, ret>>

\* the mock concept built from a paper's snippet
mock_concept(paper) ==
    Concept(IF paper.snippet.cnn THEN "CNN architecture" ELSE "attention mechanism",
            IF paper.snippet.cnn THEN "algorithm" ELSE "technique",
            paper.snippet.text, "methodology", 85)

\* internet_concepts: url -> [mock concept], in the order of similar_papers
RECURSIVE mock_internet_concepts(_, _)
mock_internet_concepts(papers, acc) ==
    IF papers = <<>> THEN acc
    ELSE LET p == Head(papers)
             entry == [url |-> p.url, concepts |-> <<mock_concept(p)>>]
         IN  mock_internet_concepts(Tail(papers),
                IF \E i \in DOMAIN acc : acc[i].url = p.url
                THEN [i \in DOMAIN acc |-> IF acc[i].url = p.url THEN entry ELSE acc[i]]
                ELSE Append(acc, entry))

agent3_concept_extraction ==
    /\ pc = "agent3_extract"
    /\ \E response \in ExtractionResponses, answered \in BOOLEAN :
        LET out == extract_advanced_concepts(state.user_paper_struct.sections, response)
        IN  IF answered /\ out.status = "returned"
            THEN /\ state' = Write(state,
                        [user_concepts |-> out.value,
                         internet_concepts |->
                            mock_internet_concepts(state.similar_papers, <<>>),
                         current_step |-> "similarity_matching",
                         progress |-> 60])
                 /\ pc' = edges[pc]
                 /\ error' = error
            ELSE /\ pc' = "failed"
                 /\ error' = IF answered THEN out.error ELSE "LLMError"
                 /\ state' = state
    /\ UNCHANGED <<llm_calls, args, ret, files>>

\* the parameters cross_similarity_analysis declares besides self
cross_similarity_parameters == {"similarity_threshold"}

\* the keyword arguments of agent4's call: threshold=0.7
agent4_call_kwargs == [threshold |-> 7000]

\* calling the method with keyword arguments: an undeclared keyword is a
\* TypeError; a missing one takes the default 0.75
call_cross_similarity_analysis(matcher, kwargs) ==
    IF ~(DOMAIN kwargs \subseteq cross_similarity_parameters)
    THEN [status |-> "raised", error |-> "TypeError"]
    ELSE cross_similarity_analysis(matcher,
            IF "similarity_threshold" \in DOMAIN kwargs
            THEN kwargs["similarity_threshold"] ELSE 7500)

\* matches.get(paper_url, [])
get_matches(mapping, url) ==
    IF url \in Keys(mapping) THEN Lookup(mapping, url) ELSE <<>>

\* agent4's loop over internet_concepts: the matches_by_paper written so far
\* and how the loop ended
RECURSIVE match_loop(_, _, _)
match_loop(matcher, entries, written) ==
    IF entries = <<>> THEN [status |-> "returned", matches_by_paper |-> written]
    ELSE LET e == Head(entries)
             m == embed_concepts(matcher, e.concepts, e.url)
             out == call_cross_similarity_analysis(m, agent4_call_kwargs)
         IN  IF out.status = "raised"
             THEN [status |-> "raised", error |-> out.error, matches_by_paper |-> written]
             ELSE match_loop(m, Tail(entries),
                    Append(written, [url |-> e.url,
                                     matches |-> get_matches(out.value, e.url)]))

agent4_similarity_matching ==
    /\ pc = "agent4_match"
    /\ \E embedded \in BOOLEAN :
        LET matcher == embed_concepts(new_matcher, state.user_concepts, "user")
            loop == match_loop(matcher, state.internet_concepts, <<>>)
        IN  /\ embedded \/ state.user_concepts # <<>> \/ state.internet_concepts # <<>>
            /\ IF ~embedded /\ state.user_concepts # <<>>
               THEN /\ pc' = "failed"
                    /\ error' = "EmbeddingError"
                    /\ state' = state
               ELSE IF ~embedded
               THEN /\ pc' = "failed"
                    /\ error' = "EmbeddingError"
                    /\ state' = Write(state, [matches_by_paper |-> <<>>])
               ELSE IF loop.status = "raised"
               THEN /\ pc' = "failed"
                    /\ error' = loop.error
                    /\ state' = Write(state, [matches_by_paper |-> loop.matches_by_paper])
               ELSE /\ pc' = edges[pc]
                    /\ error' = error
                    /\ state' = Write(state,
                            [matches_by_paper |-> loop.matches_by_paper,
                             current_step |-> "risk_scoring",
                             progress |-> 80])
    /\ UNCHANGED <<llm_calls, args, ret, files>>

\* scores.get(k) is None -> 0.0, for novelty_score and overall_overlap_pct
with_zero_fallback(scores) ==
    [scores EXCEPT
        !.novelty_score = IF IsNone(@) THEN Num(0) ELSE @,
        !.overall_overlap_pct = IF IsNone(@) THEN Num(0) ELSE @]

\* next((p for p in similar_papers if p["url"] == url), {})
paper_info(papers, url) ==
    IF \E i \in DOMAIN papers : papers[i].url = url
    THEN LET i == CHOOSE j \in DOMAIN papers :
                    /\ papers[j].url = url
                    /\ \A k \in 1..(j - 1) : papers[k].url # url
         IN  [title |-> papers[i].title, source |-> papers[i].source]
    ELSE [title |-> "Untitled", source |-> "web"]

\* the InternetMatch built for one entry of matches_by_paper
internet_match(entry, papers, scores) ==
    [paper_title |-> paper_info(papers, entry.url).title,
     paper_url |-> entry.url,
     source |-> paper_info(papers, entry.url).source,
     overlap_pct |->
        IF entry.url \in DOMAIN scores.paper_breakdown
        THEN scores.paper_breakdown[entry.url].overlap_percentage ELSE 0,
     core_concepts_overlap |->
        Len(SelectSeq(entry.matches, LAMBDA m : m.similarity_score > 850)),
     matching_concepts |->
        [i \in DOMAIN Take(entry.matches, 8) |->
            [user |-> entry.matches[i].user_concept,
             internet |-> entry.matches[i].matched_concept,
             score |-> entry.matches[i].similarity_score]]]

RECURSIVE InsertByOverlap(_, _)
InsertByOverlap(sorted, x) ==
    IF sorted = <<>> THEN <<x>>
    ELSE IF x.overlap_pct > Head(sorted).overlap_pct THEN <<x>> \o sorted
    ELSE <<Head(sorted)>> \o InsertByOverlap(Tail(sorted), x)

\* a variant that leaves top_papers in the order they were built
unsorted_by_overlap(s) == s

\* sorted(top_papers, key=lambda x: x.overlap_pct, reverse=True): stable
RECURSIVE sort_by_overlap(_)
sort_by_overlap(s) ==
    IF s = <<>> THEN <<>>
    ELSE InsertByOverlap(sort_by_overlap(SubSeq(s, 1, Len(s) - 1)), s[Len(s)])

\* sum(state["matches_by_paper"].values(), [])
RECURSIVE all_matches(_)
all_matches(mapping) ==
    IF mapping = <<>> THEN <<>>
    ELSE Head(mapping).matches \o all_matches(Tail(mapping))

\* list(matches_by_paper.values())[0][:5] if matches_by_paper else []
matches_sample(mapping) ==
    IF mapping # <<>> THEN Take(mapping[1].matches, 5) ELSE <<>>

\* a variant of the test that never substitutes the advisory
no_evidence_skipped(mapping) == FALSE

\* "if not state['matches_by_paper']": the fixed advisory replaces generation
no_evidence(mapping) == mapping = <<>>

ADVISORY ==
    "No reliable recommendations can be generated because no related research papers were retrieved. Please expand the search corpus or refine the query."

\* InternetMatch.matching_concepts is List[Dict[str, str]] and receives a
\* float score: a validating build of the model class rejects a non-empty list
rejects_matching_concepts(mapping) == all_matches(mapping) # <<>>

agent5_risk_scoring_report ==
    /\ pc = "agent5_report"
    /\ \E coerces \in BOOLEAN, answered \in BOOLEAN, answer \in RecommendationAnswers :
        LET mapping == state.matches_by_paper
            scores == with_zero_fallback(compute_aggregate_scores(mapping))
            top_papers == [i \in DOMAIN mapping |->
                                internet_match(mapping[i], state.similar_papers, scores)]
            scored == Write(state,
                        [analysis_scores |-> scores,
                         top_similar_papers |-> sort_by_overlap(top_papers)])
            explain_data == format_explainability(all_matches(mapping))
            sample == matches_sample(mapping)
            generates == ~no_evidence(mapping)
            recommendations == IF generates THEN answer ELSE <<ADVISORY>>
        IN  IF ~coerces /\ rejects_matching_concepts(mapping)
            THEN /\ pc' = "failed"
                 /\ error' = "ValidationError"
                 /\ state' = state
                 /\ llm_calls' = llm_calls
            ELSE IF generates /\ ~answered
            THEN /\ pc' = "failed"
                 /\ error' = "LLMError"
                 /\ state' = scored
                 /\ llm_calls' = Append(llm_calls,
                        [matches |-> sample, novelty_score |-> scores.novelty_score])
            ELSE /\ pc' = edges[pc]
                 /\ error' = error
                 /\ llm_calls' =
                        IF generates
                        THEN Append(llm_calls,
                                [matches |-> sample, novelty_score |-> scores.novelty_score])
                        ELSE llm_calls
                 /\ state' = Write(scored,
                        [final_result |->
                            [submitted_paper_title |-> state.user_paper_struct.title,
                             total_internet_papers_analyzed |-> Len(state.similar_papers),
                             top_similar_papers |-> sort_by_overlap(top_papers),
                             overall_plagiarism_risk |-> scores.risk_assessment,
                             novelty_score |-> Val(scores.novelty_score),
                             explainability |-> explain_data,
                             recommendations |-> recommendations],
                         current_step |-> "complete",
                         progress |-> 100])
    /\ UNCHANGED <<args, ret, files>>

\* create_complete_workflow: the nodes in sequence from the entry point
Init ==
    /\ state = initial_state
    /\ pc = "agent1_parse"
    /\ error = "none"
    /\ llm_calls = <<>>
    /\ args = [fn |-> "none"]
    /\ ret = [status |-> "none"]
    /\ files = no_files

Next ==
    \/ agent1_document_parser
    \/ agent2_internet_research
    \/ agent3_concept_extraction
    \/ agent4_similarity_matching
    \/ agent5_risk_scoring_report

Spec == Init /\ [][Next]_vars

\* invoke() runs the nodes synchronously one after the other: a node that can
\* run does run once the calls of the node before it have returned or raised
SpecFair == Spec /\ WF_vars(Next)

-----------------------------------------------------------------------------
(* Direct calls of compute_aggregate_scores on bounded mappings *)

\* a well-formed match with the recorded score (units of 1/1000) and section tag
MkMatch(score, section) ==
    [user_concept |->
        concept_text(Concept("attention mechanism", "technique", 0,
                             IF section = "methodology" THEN "methodology" ELSE "results", 85)),
     matched_concept |->
        concept_text(Concept("multi-head attention", "technique", 1, "methodology", 85)),
     similarity_score |-> score,
     section |-> section,
     match_strength |-> match_strength(score * 10)]

\* recorded scores and section tags of the matches in the mappings tried
MatchKinds ==
    {MkMatch(600, "other"), MkMatch(601, "other"), MkMatch(720, "other"),
     MkMatch(880, "other"), MkMatch(880, "methodology"), MkMatch(950, "other"),
     MkMatch(0, "other"), MkMatch(1000, "methodology")}

ListsUpTo(n) == UNION {[1..k -> MatchKinds] : k \in 0..n}

\* the mapping holding lists[i] under Urls[i] for the urls of S, in that order
MappingOf(S, lists) ==
    SelectSeq([i \in DOMAIN Urls |-> [url |-> Urls[i], matches |-> lists[i]]],
              LAMBDA e : e.url \in S)

\* the lists a url may hold: none unless it is a key of the mapping, else at
\* most budget matches (MaxTotalMatches bounds the matches of a mapping)
ListsFor(S, i, budget) == ListsUpTo(IF Urls[i] \in S THEN budget ELSE 0)

InitScorer ==
    /\ state = initial_state
    /\ pc = "direct_call"
    /\ error = "none"
    /\ llm_calls = <<>>
    /\ \E S \in SUBSET SeqToSet(Urls) :
       \E l1 \in ListsFor(S, 1, MaxTotalMatches) :
       \E l2 \in ListsFor(S, 2, MaxTotalMatches - Len(l1)) :
       \E l3 \in ListsFor(S, 3, MaxTotalMatches - Len(l1) - Len(l2)) :
            args = [fn |-> "compute_aggregate_scores",
                    matches_by_paper |-> MappingOf(S, <<l1, l2, l3>>)]
    /\ ret = [status |-> "pending"]
    /\ files = no_files

CallComputeAggregateScores ==
    /\ args.fn = "compute_aggregate_scores"
    /\ ret.status = "pending"
    /\ ret' = [status |-> "returned",
               value |-> compute_aggregate_scores(args.matches_by_paper)]
    /\ UNCHANGED <<state, pc, error, llm_calls, args, files>>

NextScorer == CallComputeAggregateScores

SpecScorer == InitScorer /\ [][NextScorer]_vars

-----------------------------------------------------------------------------
(* The search stage run on the providers' behaviours *)

\* the state after agent1 for a one-page paper
parsed_context ==
    LET docs == [pages |-> 1, headings |-> {}, equations |-> 1, figures |-> 0]
    IN  Write(initial_state,
            [raw_documents |-> docs,
             user_paper_struct |-> extract_paper_structure_from_docs(docs),
             current_step |-> "research_search",
             progress |-> 20])

InitSearch ==
    /\ state = parsed_context
    /\ pc = "agent2_search"
    /\ error = "none"
    /\ llm_calls = <<>>
    /\ \E arxiv \in ArxivOutcomes, tavily \in TavilyOutcomes :
            args = [fn |-> "search_research_papers", arxiv |-> arxiv, tavily |-> tavily]
    /\ ret = [status |-> "pending"]
    /\ files = no_files

\* agent2 with the providers behaving as drawn: the list its call of
\* search_research_papers returns, and the state the stage returns
CallSearchResearchPapers ==
    /\ args.fn = "search_research_papers"
    /\ ret.status = "pending"
    /\ pc = "agent2_search"
    /\ ret' = [status |-> "returned",
               value |-> search_research_papers(args.arxiv, args.tavily)]
    /\ state' = searched_state(state, args.arxiv, args.tavily)
    /\ files' = write_data_txt(files, state.session_id, args.arxiv)
    /\ pc' = "agent3_extract"
    /\ UNCHANGED <<error, llm_calls, args>>

NextSearch == CallSearchResearchPapers

SpecSearch == InitSearch /\ [][NextSearch]_vars

-----------------------------------------------------------------------------
(* Direct calls of format_explainability on bounded sequences of matches *)

\* longest run of arbitrary matches at either end of a sequence tried
MaxExplainEdge == 2

\* longest run of equal matches in the middle of a sequence tried
MaxExplainFiller == 9

\* two matches whose user_concept differs only after the 80th character, one
\* of them flagged as a false positive, and one with an empty user_concept
ExplainMatchKinds ==
    {MkMatch(880, "methodology"),
     MkMatch(720, "other") @@ [is_false_positive |-> TRUE],
     [MkMatch(600, "other") EXCEPT !.user_concept = EmptyText]}

EdgeLists == UNION {[1..k -> ExplainMatchKinds] : k \in 0..MaxExplainEdge}

Filler(n) == [i \in 1..n |-> MkMatch(950, "other")]

InitExplain ==
    /\ state = initial_state
    /\ pc = "direct_call"
    /\ error = "none"
    /\ llm_calls = <<>>
    /\ \E front \in EdgeLists, back \in EdgeLists, n \in 0..MaxExplainFiller :
            args = [fn |-> "format_explainability",
                    matches |-> front \o Filler(n) \o back]
    /\ ret = [status |-> "pending"]
    /\ files = no_files

CallFormatExplainability ==
    /\ args.fn = "format_explainability"
    /\ ret.status = "pending"
    /\ ret' = [status |-> "returned", value |-> format_explainability(args.matches)]
    /\ UNCHANGED <<state, pc, error, llm_calls, args, files>>

NextExplain == CallFormatExplainability

SpecExplain == InitExplain /\ [][NextExplain]_vars

-----------------------------------------------------------------------------
(* api/routes.detect_plagiarism: one upload handled from entry to response  *)
(* The handler is two steps around its call of the compiled workflow: up to *)
(* plagiarism_graph.invoke(state), and from its return or exception on.     *)

\* the uploads tried: filename ending in .pdf or not, size above 50 MB or
\* not, and the number of pages the saved file loads to
Uploads == [pdf_name : BOOLEAN, too_large : BOOLEAN, pages : 0..MaxPages]

\* tempfile.mkdtemp(prefix="plagiarism_"): a directory no one else has
temp_dir_of(session_id) == <<"plagiarism_", session_id>>

\* a variant of the cleanup that leaves the directory in place
keep_tree(fs, dir) == fs

\* shutil.rmtree(temp_dir)
rmtree(fs, dir) == [fs EXCEPT !.temp_dirs = @ \ {dir}]

\* raise HTTPException(status_code, detail) inside the try block
HTTPException(status_code) == [type |-> "HTTPException", status_code |-> status_code]

\* any other exception raised inside the try block
OtherException(type) == [type |-> type, status_code |-> 0]

\* "except Exception as e": HTTPException derives from Exception, so every
\* exception of the try block is handled here, the rejections included.
\* The directory is removed if temp_dir is set, and HTTPException(500,
\* "Analysis failed: ...") is raised.
handle_exception(fs, temp_dir, e, started) ==
    [files |-> IF temp_dir # None THEN rmtree(fs, Val(temp_dir)) ELSE fs,
     ret |-> [status |-> "raised",
              http_status |-> 500,
              cause |-> e,
              created |-> temp_dir,
              pipeline_started |-> started]]

InitRoute ==
    /\ state = << >>
    /\ pc = "route_entry"
    /\ error = "none"
    /\ llm_calls = <<>>
    /\ \E upload \in Uploads : args = [fn |-> "detect_plagiarism", upload |-> upload]
    /\ ret = [status |-> "pending"]
    /\ files = no_files

\* detect_plagiarism up to plagiarism_graph.invoke(state)
detect_plagiarism_accept ==
    /\ pc = "route_entry"
    /\ args.fn = "detect_plagiarism"
    /\ \E saved \in BOOLEAN, loaded \in BOOLEAN :
        LET dir == temp_dir_of(initial_state.session_id)
            made == [files EXCEPT !.temp_dirs = @ \cup {dir}]
            rejection ==
                IF ~args.upload.pdf_name THEN Num(400)
                ELSE IF args.upload.too_large THEN Num(413)
                ELSE None
            out ==
                IF rejection # None
                THEN handle_exception(files, None, HTTPException(Val(rejection)), FALSE)
                ELSE IF ~saved
                THEN handle_exception(made, Num(dir), OtherException("OSError"), FALSE)
                ELSE IF ~loaded
                THEN handle_exception(made, Num(dir), OtherException("LoaderError"), FALSE)
                ELSE IF args.upload.pages = 0
                THEN handle_exception(made, Num(dir), HTTPException(400), FALSE)
                ELSE [files |-> made,
                      ret |-> [status |-> "pending", created |-> Num(dir),
                               pipeline_started |-> TRUE]]
        IN  /\ files' = out.files
            /\ ret' = out.ret
            /\ IF out.ret.status = "pending"
               THEN /\ state' = initial_state
                    /\ pc' = "agent1_parse"
               ELSE /\ state' = state
                    /\ pc' = "route_done"
    /\ UNCHANGED <<error, llm_calls, args>>

\* detect_plagiarism from the return (or the exception) of the workflow on
detect_plagiarism_respond ==
    /\ pc \in {"END", "failed"}
    /\ args.fn = "detect_plagiarism"
    /\ ret.status = "pending"
    /\ \E formatted \in BOOLEAN :
        LET dir == Val(ret.created)
            out ==
                IF pc = "failed"
                THEN handle_exception(files, ret.created, OtherException(error), TRUE)
                ELSE IF ~formatted
                THEN handle_exception(rmtree(files, dir), None,
                                      OtherException("ValidationError"), TRUE)
                ELSE [files |-> rmtree(files, dir),
                      ret |-> [status |-> "returned", http_status |-> 200,
                               created |-> ret.created, pipeline_started |-> TRUE,
                               result |-> state.final_result]]
        IN  /\ files' = out.files
            /\ ret' = [out.ret EXCEPT !.created = ret.created]
    /\ pc' = "route_done"
    /\ UNCHANGED <<state, error, llm_calls, args>>

NextRoute ==
    \/ detect_plagiarism_accept
    \/ agent1_document_parser
    \/ agent2_internet_research
    \/ agent3_concept_extraction
    \/ agent4_similarity_matching
    \/ agent5_risk_scoring_report
    \/ detect_plagiarism_respond

SpecRoute == InitRoute /\ [][NextRoute]_vars

-----------------------------------------------------------------------------
(* Two requests handled at the same time (one worker process each, in the   *)
(* same working directory).  Here state and pc hold one context and one     *)
(* position per request; files is what the requests have in common.         *)

\* the session ids of the two requests
Requests == {"s1", "s2"}

InitConcurrent ==
    /\ state = [r \in Requests |-> << >>]
    /\ pc = [r \in Requests |-> "route_entry"]
    /\ error = "none"
    /\ llm_calls = <<>>
    /\ args = [fn |-> "concurrent_requests"]
    /\ ret = [status |-> "none"]
    /\ files = no_files

\* detect_plagiarism accepts the upload of request r (its own directory and
\* its own state dict) and the parse stage returns
request_accept_and_parse ==
    \E r \in Requests :
        /\ pc[r] = "route_entry"
        /\ files' = [files EXCEPT !.temp_dirs = @ \cup {temp_dir_of(r)}]
        /\ state' = [state EXCEPT ![r] = Write(parsed_context, [session_id |-> r])]
        /\ pc' = [pc EXCEPT ![r] = "agent2_search"]
        /\ UNCHANGED <<error, llm_calls, args, ret>>

\* agent2 of request r: the module-level research_searcher searches and
\* writes data.txt of the working directory
request_search ==
    \E r \in Requests :
        /\ pc[r] = "agent2_search"
        /\ \E arxiv \in ArxivOutcomes, tavily \in TavilyOutcomes :
            /\ state' = [state EXCEPT ![r] = searched_state(state[r], arxiv, tavily)]
            /\ files' = write_data_txt(files, r, arxiv)
        /\ pc' = [pc EXCEPT ![r] = "agent3_extract"]
        /\ UNCHANGED <<error, llm_calls, args, ret>>

\* the workflow of request r returns or raises and the handler removes the
\* directory of the request
request_finish ==
    \E r \in Requests :
        /\ pc[r] = "agent3_extract"
        /\ files' = rmtree(files, temp_dir_of(r))
        /\ pc' = [pc EXCEPT ![r] = "route_done"]
        /\ UNCHANGED <<state, error, llm_calls, args, ret>>

NextConcurrent ==
    \/ request_accept_and_parse
    \/ request_search
    \/ request_finish

SpecConcurrent == InitConcurrent /\ [][NextConcurrent]_vars

-----------------------------------------------------------------------------
(* Direct calls of extract_advanced_concepts on the service's responses *)

InitExtract ==
    /\ state = initial_state
    /\ pc = "direct_call"
    /\ error = "none"
    /\ llm_calls = <<>>
    /\ \E docs \in Documents, response \in ExtractionResponses :
            args = [fn |-> "extract_advanced_concepts",
                    sections |-> extract_paper_structure_from_docs(docs).sections,
                    response |-> response]
    /\ ret = [status |-> "pending"]
    /\ files = no_files

CallExtractAdvancedConcepts ==
    /\ args.fn = "extract_advanced_concepts"
    /\ ret.status = "pending"
    /\ ret' = extract_advanced_concepts(args.sections, args.response)
    /\ UNCHANGED <<state, pc, error, llm_calls, args, files>>

NextExtract == CallExtractAdvancedConcepts

SpecExtract == InitExtract /\ [][NextExtract]_vars

-----------------------------------------------------------------------------
(* The score/report node run on the contexts a completed match stage leaves *)

\* the candidates behind a mapping's urls
papers_of(mapping) ==
    [i \in DOMAIN mapping |-> Paper(mapping[i].url, "arxiv", Snippet(FALSE, 1))]

\* the state after agent1..agent4 for a one-page paper and the given matches
matched_context(mapping) ==
    LET docs == [pages |-> 1, headings |-> {}, equations |-> 1, figures |-> 0]
        struct == extract_paper_structure_from_docs(docs)
    IN  Write(initial_state,
            [raw_documents |-> docs,
             user_paper_struct |-> struct,
             search_query |-> [title |-> struct.title, abstract |-> abstract_of(struct)],
             similar_papers |-> papers_of(mapping),
             user_concepts |-> multimodal_concepts(struct.sections),
             internet_concepts |-> mock_internet_concepts(papers_of(mapping), <<>>),
             matches_by_paper |-> mapping,
             current_step |-> "risk_scoring",
             progress |-> 80])

\* the matches of the contexts tried: below and above the 0.85 mark, in both
\* section tags
ReportMatchKinds ==
    {MkMatch(720, "other"), MkMatch(880, "other"), MkMatch(880, "methodology")}

\* the lists a url may hold in a context (see ListsFor)
ReportListsFor(S, i, budget) ==
    UNION {[1..k -> ReportMatchKinds] :
            k \in 0..(IF Urls[i] \in S THEN budget ELSE 0)}

InitReport ==
    /\ \E S \in SUBSET SeqToSet(Urls) :
       \E l1 \in ReportListsFor(S, 1, MaxTotalMatches) :
       \E l2 \in ReportListsFor(S, 2, MaxTotalMatches - Len(l1)) :
       \E l3 \in ReportListsFor(S, 3, MaxTotalMatches - Len(l1) - Len(l2)) :
            state = matched_context(MappingOf(S, <<l1, l2, l3>>))
    /\ pc = "agent5_report"
    /\ error = "none"
    /\ llm_calls = <<>>
    /\ args = [fn |-> "none"]
    /\ ret = [status |-> "none"]
    /\ files = no_files

NextReport == agent5_risk_scoring_report

SpecReport == InitReport /\ [][NextReport]_vars

-----------------------------------------------------------------------------
(* Direct calls of cross_similarity_analysis on bounded matchers *)

\* user concepts embedded before the call
MaxUserConcepts == 2

\* concepts embedded for one candidate paper
MaxStoreConcepts == 6

UserConceptKinds ==
    {Concept("attention mechanism", "technique", d, "results", 85) : d \in {0, 2}}
    \cup {Concept("sorting algorithm", "algorithm", d, "results", 85) : d \in {0, 2}}

UserConceptLists == UNION {[1..n -> UserConceptKinds] : n \in 0..MaxUserConcepts}

\* a candidate's concepts, nearest to description 0 first
StoreConceptLists ==
    UNION {
        {[i \in 1..n |-> Concept("multi-head attention", "technique", ds[i], "methodology", 85)] :
            ds \in {f \in [1..n -> 0..4] : \A i \in 1..(n - 1) : f[i] <= f[i + 1]}} :
        n \in 0..MaxStoreConcepts}

\* concepts of an optional second candidate
SecondStoreLists ==
    {<<>>, <<Concept("transformer block", "technique", 1, "methodology", 85)>>}

\* the default 0.75 and a threshold between two representable scores
Thresholds == {7500, 7503}

InitMatcher ==
    /\ state = initial_state
    /\ pc = "direct_call"
    /\ error = "none"
    /\ llm_calls = <<>>
    /\ \E uc \in UserConceptLists, c1 \in StoreConceptLists,
          c2 \in SecondStoreLists, t \in Thresholds :
            args = [fn |-> "cross_similarity_analysis",
                    matcher |-> embed_concepts(
                                    embed_concepts(
                                        embed_concepts(new_matcher, uc, "user"),
                                        c1, "u1"),
                                    c2, "u2"),
                    similarity_threshold |-> t]
    /\ ret = [status |-> "pending"]
    /\ files = no_files

CallCrossSimilarityAnalysis ==
    /\ args.fn = "cross_similarity_analysis"
    /\ ret.status = "pending"
    /\ ret' = cross_similarity_analysis(args.matcher, args.similarity_threshold)
    /\ UNCHANGED <<state, pc, error, llm_calls, args, files>>

NextMatcher == CallCrossSimilarityAnalysis

SpecMatcher == InitMatcher /\ [][NextMatcher]_vars

-----------------------------------------------------------------------------
(* Properties of cross_similarity_analysis (checked under SpecMatcher) *)

MatcherReturned == args.fn = "cross_similarity_analysis" /\ ret.status = "returned"

\* C2: every match of every returned list has a recorded similarity_score
\* that is at least the threshold passed to the call.
C2_RecordedScoreAtLeastThreshold ==
    MatcherReturned =>
        \A i \in DOMAIN ret.value :
            \A j \in DOMAIN ret.value[i].matches :
                ret.value[i].matches[j].similarity_score * 10 >= args.similarity_threshold

\* a call with threshold 0.75 returned matches, all recorded at 0.75 or more
C2_Witness ==
    /\ MatcherReturned
    /\ args.similarity_threshold = 7500
    /\ \E i \in DOMAIN ret.value :
            /\ ret.value[i].matches # <<>>
            /\ \A j \in DOMAIN ret.value[i].matches :
                    ret.value[i].matches[j].similarity_score >= 750

\* every match that passed the threshold for the i-th store, uncut
Qualifying(i) ==
    matches_for_store(Val(args.matcher.user_store),
                      args.matcher.internet_stores[i].store,
                      args.similarity_threshold)

\* C3: each returned list has at most 10 matches, and no qualifying match
\* that was left out has a strictly higher similarity than one that was kept.
C3_KeepsHighestSimilarity ==
    MatcherReturned =>
        \A i \in DOMAIN ret.value :
            /\ Len(ret.value[i].matches) <= 10
            /\ \A j \in DOMAIN ret.value[i].matches :
                    \A l \in (Len(ret.value[i].matches) + 1)..Len(Qualifying(i)) :
                        Qualifying(i)[l].similarity_score
                            <= ret.value[i].matches[j].similarity_score

\* more than 10 matches qualified and 10 were returned
C3_Witness ==
    /\ MatcherReturned
    /\ \E i \in DOMAIN ret.value :
            /\ Len(Qualifying(i)) > 10
            /\ Len(ret.value[i].matches) = 10

-----------------------------------------------------------------------------
(* Properties of compute_aggregate_scores (checked under SpecScorer) *)

ScorerReturned == args.fn = "compute_aggregate_scores" /\ ret.status = "returned"

NoCandidateHasMatch(mapping) == \A i \in DOMAIN mapping : mapping[i].matches = <<>>

IsSentinel(v) ==
    /\ IsNone(v.overall_overlap_pct)
    /\ IsNone(v.novelty_score)
    /\ v.risk_assessment = "UNKNOWN"

\* C6: compute_aggregate_scores returns the sentinel (overlap None, novelty
\* None, risk UNKNOWN) exactly when no candidate of the mapping has a match
\* (empty mapping or only empty lists), and then reports no numeric zero.
C6_SentinelIffNoMatch ==
    ScorerReturned =>
        /\ IsSentinel(ret.value) <=> NoCandidateHasMatch(args.matches_by_paper)
        /\ NoCandidateHasMatch(args.matches_by_paper) =>
                /\ ret.value.overall_overlap_pct # Num(0)
                /\ ret.value.novelty_score # Num(0)

\* the sentinel came back for a non-empty mapping of empty lists
C6_Witness ==
    /\ ScorerReturned
    /\ Len(args.matches_by_paper) >= 2
    /\ NoCandidateHasMatch(args.matches_by_paper)
    /\ IsSentinel(ret.value)

SameAggregate(a, b) ==
    /\ a.overall_overlap_pct = b.overall_overlap_pct
    /\ a.novelty_score = b.novelty_score
    /\ a.risk_assessment = b.risk_assessment
    /\ a.paper_breakdown = b.paper_breakdown

WithoutEmpty(mapping) == SelectSeq(mapping, LAMBDA e : e.matches # <<>>)

WithEmpty(mapping, u) == Append(mapping, [url |-> u, matches |-> <<>>])

\* C8: removing every candidate with an empty match list, or adding one,
\* leaves overall_overlap_pct, novelty_score, risk_assessment and
\* paper_breakdown unchanged; a candidate without matches has no score.
C8_EmptyCandidatesIgnored ==
    ScorerReturned =>
        LET m == args.matches_by_paper IN
        /\ SameAggregate(ret.value, compute_aggregate_scores(WithoutEmpty(m)))
        /\ \A u \in SeqToSet(Urls) \ Keys(m) :
                SameAggregate(ret.value, compute_aggregate_scores(WithEmpty(m, u)))
        /\ \A i \in DOMAIN m :
                m[i].matches = <<>> => m[i].url \notin DOMAIN ret.value.paper_breakdown

\* a numeric result for a mapping that mixes empty and non-empty candidates
C8_Witness ==
    /\ ScorerReturned
    /\ \E i, j \in DOMAIN args.matches_by_paper :
            /\ args.matches_by_paper[i].matches = <<>>
            /\ args.matches_by_paper[j].matches # <<>>
    /\ ~IsNone(ret.value.overall_overlap_pct)
    /\ Len(args.matches_by_paper) < Len(Urls)

TierOfReported(x) ==
    IF x > 600 THEN "HIGH" ELSE IF x > 300 THEN "MEDIUM" ELSE "LOW"

\* C9: for every numeric result, the reported overall_overlap_pct is the
\* mean of the per-candidate overlap percentages and risk_assessment is the
\* tier of the reported value (HIGH above 60, MEDIUM above 30, else LOW).
C9_RiskAgreesWithReported ==
    (ScorerReturned /\ ~IsNone(ret.value.overall_overlap_pct)) =>
        LET ps == ret.value.paper_breakdown
            reported == Val(ret.value.overall_overlap_pct)
        IN  /\ reported * Cardinality(DOMAIN ps)
                    = SumOver(ps, DOMAIN ps, "overlap_percentage")
            /\ ret.value.risk_assessment = TierOfReported(reported)

\* the documented example: candidates at 95.0 and 72.0 give 83.5, HIGH, 16.5
C9_Witness ==
    /\ ScorerReturned
    /\ args.matches_by_paper =
            <<[url |-> "u1", matches |-> <<MkMatch(950, "other")>>],
              [url |-> "u2", matches |-> <<MkMatch(720, "other")>>]>>
    /\ ret.value.overall_overlap_pct = Num(835)
    /\ ret.value.risk_assessment = "HIGH"
    /\ ret.value.novelty_score = Num(165)

SingleMatch880(e) ==
    /\ Len(e.matches) = 1
    /\ e.matches[1].similarity_score = 880

\* C10 (as documented): a candidate whose only match has similarity 0.88 gets
\* overlap_percentage 88.0 if the match is tagged other and 132.0 if it is
\* tagged methodology, and risk_category HIGH in both cases.
C10_HighInBothCases ==
    ScorerReturned =>
        \A i \in DOMAIN args.matches_by_paper :
            LET e == args.matches_by_paper[i] IN
            SingleMatch880(e) =>
                /\ ret.value.paper_breakdown[e.url].overlap_percentage
                        = IF e.matches[1].section = "methodology" THEN 1320 ELSE 880
                /\ ret.value.paper_breakdown[e.url].risk_category = "HIGH"

\* C10 (amended): overlap_percentage is 88.0 with risk_category HIGH when
\* the match is tagged other, and 132.0 with risk_category CRITICAL when it
\* is tagged methodology (weighted mean 1.32 > 0.9).
C10_HighOrCritical ==
    ScorerReturned =>
        \A i \in DOMAIN args.matches_by_paper :
            LET e == args.matches_by_paper[i] IN
            SingleMatch880(e) =>
                /\ ret.value.paper_breakdown[e.url].overlap_percentage
                        = IF e.matches[1].section = "methodology" THEN 1320 ELSE 880
                /\ ret.value.paper_breakdown[e.url].risk_category
                        = IF e.matches[1].section = "methodology" THEN "CRITICAL" ELSE "HIGH"

\* both taggings of the 0.88 match were scored in one call
C10_Witness ==
    /\ ScorerReturned
    /\ \E i, j \in DOMAIN args.matches_by_paper :
            /\ SingleMatch880(args.matches_by_paper[i])
            /\ SingleMatch880(args.matches_by_paper[j])
            /\ args.matches_by_paper[i].matches[1].section = "methodology"
            /\ args.matches_by_paper[j].matches[1].section = "other"
            /\ ret.value.paper_breakdown[args.matches_by_paper[i].url].overlap_percentage = 1320
            /\ ret.value.paper_breakdown[args.matches_by_paper[j].url].overlap_percentage = 880

-----------------------------------------------------------------------------
(* Properties of the pipeline and of the score/report node *)

HasCandidates ==
    /\ "similar_papers" \in DOMAIN state
    /\ state.similar_papers # <<>>

ZeroCandidates ==
    /\ "similar_papers" \in DOMAIN state
    /\ state.similar_papers = <<>>

Reported == pc = "END" /\ "final_result" \in DOMAIN state

\* C1: with at least one candidate, a run that stops in the match stage
\* (after concept extraction completed) stops only on a collaborator's error,
\* never on an exception of the stage's own code
C1_MatchStageCompletes ==
    (pc = "failed" /\ HasCandidates /\ state.current_step = "similarity_matching")
        => error \in CollaboratorErrors

C1_Witness ==
    /\ pc = "failed"
    /\ HasCandidates
    /\ state.current_step = "similarity_matching"
    /\ error = "TypeError"

clamp(x, lo, hi) == IF x < lo THEN lo ELSE IF x > hi THEN hi ELSE x

\* C4: every report's novelty_score equals clamp(100 - overall_overlap_pct,
\* 0, 100) for the overall overlap recorded for that run (tenths of a percent)
C4_NoveltyIsComplementOfOverlap ==
    Reported =>
        state.final_result.novelty_score =
            clamp(1000 - Val(state.analysis_scores.overall_overlap_pct), 0, 1000)

C4_Witness ==
    /\ Reported
    /\ NoCandidateHasMatch(state.matches_by_paper)
    /\ state.final_result.novelty_score = 0
    /\ state.analysis_scores.overall_overlap_pct = Num(0)

\* C5: the generation service is never invoked with an empty list of
\* matches, and a report built when no candidate has any match carries the
\* advisory alone and was built without invoking the service
C5_NoGenerationWithoutEvidence ==
    /\ \A i \in DOMAIN llm_calls : llm_calls[i].matches # <<>>
    /\ (Reported /\ NoCandidateHasMatch(state.matches_by_paper))
            => /\ llm_calls = <<>>
               /\ state.final_result.recommendations = <<ADVISORY>>

C5_Witness ==
    /\ pc = "END"
    /\ state.matches_by_paper # <<>>
    /\ NoCandidateHasMatch(state.matches_by_paper)
    /\ llm_calls # <<>>
    /\ llm_calls[1].matches = <<>>

-----------------------------------------------------------------------------
(* Ranges of the scores *)

SimilaritiesInUnitRange(mapping) ==
    \A i \in DOMAIN mapping : \A j \in DOMAIN mapping[i].matches :
        /\ mapping[i].matches[j].similarity_score >= 0
        /\ mapping[i].matches[j].similarity_score <= 1000

\* C11: for a mapping with similarities in [0,1] in which some candidate has
\* a match, every overlap_percentage of the breakdown is in [0,150] and the
\* novelty_score is in [0,100] (tenths of a percent)
C11_ScoresInRange ==
    (/\ ScorerReturned
     /\ SimilaritiesInUnitRange(args.matches_by_paper)
     /\ ~NoCandidateHasMatch(args.matches_by_paper))
        => /\ \A u \in DOMAIN ret.value.paper_breakdown :
                /\ ret.value.paper_breakdown[u].overlap_percentage >= 0
                /\ ret.value.paper_breakdown[u].overlap_percentage <= 1500
           /\ ~IsNone(ret.value.novelty_score)
           /\ Val(ret.value.novelty_score) >= 0
           /\ Val(ret.value.novelty_score) <= 1000

\* a methodology-only candidate scored above 100 percent, novelty clamped to 0
C11_Witness ==
    /\ ScorerReturned
    /\ \E u \in DOMAIN ret.value.paper_breakdown :
            ret.value.paper_breakdown[u].overlap_percentage = 1500
    /\ ret.value.overall_overlap_pct = Num(1500)
    /\ ret.value.novelty_score = Num(0)

-----------------------------------------------------------------------------
(* The parse stage on an empty document *)

EmptyDocumentParsed ==
    /\ "raw_documents" \in DOMAIN state
    /\ \/ state.raw_documents.pages = 0
       \/ DOMAIN state.user_paper_struct.sections = {}

\* C12: when the loader yielded zero pages or the structure has zero
\* sections, the run has failed in the parse stage: no later stage has run
\* and there is no report
C12_ParseFailsOnEmptyDocument ==
    EmptyDocumentParsed
        => /\ pc = "failed"
           /\ state.current_step = "research_search"
           /\ "similar_papers" \notin DOMAIN state
           /\ "final_result" \notin DOMAIN state

\* a zero-page document went through every stage and a report was produced
C12_Witness ==
    /\ EmptyDocumentParsed
    /\ state.raw_documents.pages = 0
    /\ Reported
    /\ state.final_result.submitted_paper_title = "Untitled Research Paper"

-----------------------------------------------------------------------------
(* Properties of search_research_papers *)

SearchReturned == args.fn = "search_research_papers" /\ ret.status = "returned"

FromSource(papers, source) == SelectSeq(papers, LAMBDA p : p.source = source)

\* what a provider that did not raise contributes on its own
AloneResult(outcome) == Take(dedup_by_url(outcome.appended, {}), MAX_INTERNET_PAPERS)

\* C13: when one provider raised (in its call or while its results were
\* collected), the call returns, nothing in the returned list comes from that
\* provider, and the list is what the other provider gives on its own
C13_FailedProviderContributesNothing ==
    /\ args.fn = "search_research_papers" => ret.status \in {"pending", "returned"}
    /\ (SearchReturned /\ args.arxiv.raised # "no" /\ args.tavily.raised = "no")
            => /\ FromSource(ret.value, "arxiv") = <<>>
               /\ ret.value = AloneResult(args.tavily)
    /\ (SearchReturned /\ args.tavily.raised # "no" /\ args.arxiv.raised = "no")
            => /\ FromSource(ret.value, "web") = <<>>
               /\ ret.value = AloneResult(args.arxiv)

\* arxiv raised while its results were collected and one of its candidates
\* is in the returned list, ahead of the web candidate with the same url
C13_Witness ==
    /\ SearchReturned
    /\ args.arxiv.raised = "collect"
    /\ args.tavily.raised = "no"
    /\ FromSource(ret.value, "arxiv") # <<>>
    /\ ret.value # AloneResult(args.tavily)

Urls_of(papers) == [i \in DOMAIN papers |-> papers[i].url]

NoDuplicates(seq) == \A i, j \in DOMAIN seq : seq[i] = seq[j] => i = j

\* the first candidate collected with the given url
FirstSeen(collected, url) ==
    collected[CHOOSE i \in DOMAIN collected :
                /\ collected[i].url = url
                /\ \A k \in 1..(i - 1) : collected[k].url # url]

\* C14: the list search_research_papers returns has no two candidates with
\* the same url, none with an empty url, the first-seen candidate of each
\* url, and at most 5 entries; similar_papers has at most 5 entries
C14_DedupedAndCapped ==
    SearchReturned
        => /\ NoDuplicates(Urls_of(ret.value))
           /\ \A i \in DOMAIN ret.value :
                /\ ret.value[i].url # ""
                /\ ret.value[i] =
                        FirstSeen(args.arxiv.appended \o args.tavily.appended,
                                  ret.value[i].url)
           /\ Len(ret.value) <= 5
           /\ Len(state.similar_papers) <= 5
           /\ state.similar_papers = ret.value

\* seven distinct urls were collected, one url twice and the cap cut the list
C14_Witness ==
    /\ SearchReturned
    /\ Len(args.arxiv.appended \o args.tavily.appended) = 9
    /\ Len(ret.value) = 5
    /\ Len(state.similar_papers) = 5
    /\ ret.value[1].source = "arxiv"
    /\ ret.value[5].source = "web"

-----------------------------------------------------------------------------
(* The extract stage *)

Extracted == "user_concepts" \in DOMAIN state

\* the pages of a document that has any carry text longer than the length
\* threshold, and every section of its structure holds that text
HasLongSection ==
    /\ state.raw_documents.pages > 0
    /\ DOMAIN state.user_paper_struct.sections # {}

\* C15: after the extract stage, a source document with fewer than 6
\* extracted concepts and a section longer than the length threshold has
\* fallback concepts in user_concepts, so user_concepts is not empty
C15_FallbackConceptsSynthesized ==
    (Extracted /\ HasLongSection /\ Len(state.user_concepts) < 6)
        => state.user_concepts # <<>>

\* the match stage is about to start with no source concept
C15_Witness ==
    /\ pc = "agent4_match"
    /\ Extracted
    /\ HasLongSection
    /\ state.user_concepts = <<>>

-----------------------------------------------------------------------------
(* Building an index from no concept *)

MatchStageCompleted ==
    /\ "matches_by_paper" \in DOMAIN state
    /\ state.current_step \in {"risk_scoring", "complete"}

\* C16: embed_concepts fails on an empty sequence, so the match stage, which
\* first builds the index of user_concepts, never completes when
\* user_concepts is empty
C16_EmptyIndexBuildFails ==
    MatchStageCompleted => state.user_concepts # <<>>

\* embed_concepts([], "user") returned and the match stage went on to finish
C16_Witness ==
    /\ pc = "agent5_report"
    /\ MatchStageCompleted
    /\ state.user_concepts = <<>>
    /\ embed_concepts(new_matcher, state.user_concepts, "user") = new_matcher

-----------------------------------------------------------------------------
(* Properties of format_explainability *)

ExplainReturned == args.fn = "format_explainability" /\ ret.status = "returned"

\* positions among the first 10 whose user_concept is not empty
Contributors(matches) ==
    {i \in DOMAIN matches : i <= 10 /\ matches[i].user_concept # EmptyText}

\* C17: only the first 10 entries are considered and every contributing
\* phrase has its own weight entry: as many attention_weights as
\* top_contributing_phrases, at most 10, one per contributing entry
C17_OneWeightPerPhrase ==
    ExplainReturned
        => /\ Len(ret.value.top_contributing_phrases)
                = Cardinality(Contributors(args.matches))
           /\ Cardinality(DOMAIN ret.value.attention_weights)
                = Len(ret.value.top_contributing_phrases)
           /\ Len(ret.value.top_contributing_phrases) <= 10
           /\ \A i \in Contributors(args.matches) :
                \E k \in DOMAIN ret.value.attention_weights :
                    ret.value.attention_weights[k] = weight_of(args.matches[i])

\* more than 10 matches, two of the first 10 with the same phrase and
\* different weights, both weights kept
C17_Witness ==
    /\ ExplainReturned
    /\ Len(args.matches) > 10
    /\ \E i, j \in Contributors(args.matches) :
            /\ i # j
            /\ phrase_of(args.matches[i].user_concept)
                    = phrase_of(args.matches[j].user_concept)
            /\ args.matches[i].user_concept # args.matches[j].user_concept
            /\ weight_of(args.matches[i]) # weight_of(args.matches[j])
    /\ Cardinality(DOMAIN ret.value.attention_weights) = 10

\* C18: format_explainability of an empty sequence returns, and returns no
\* phrase, no weight and zero filtered false positives
C18_EmptyInputEmptyResult ==
    (args.fn = "format_explainability" /\ args.matches = <<>>)
        => /\ ret.status \in {"pending", "returned"}
           /\ ret.status = "returned"
                => /\ ret.value.top_contributing_phrases = <<>>
                   /\ DOMAIN ret.value.attention_weights = {}
                   /\ ret.value.false_positives_filtered = 0

C18_Witness ==
    /\ ExplainReturned
    /\ args.matches = <<>>
    /\ ret.value.top_contributing_phrases = <<>>
    /\ ret.value.false_positives_filtered = 0

-----------------------------------------------------------------------------
(* Order of the candidates in the report *)

\* position of the candidate with the given url in similar_papers
SearchRank(url) ==
    CHOOSE i \in DOMAIN state.similar_papers : state.similar_papers[i].url = url

\* C19: top_similar_papers of a report lists every scored candidate once, by
\* overlap_pct descending, candidates of equal overlap_pct in the order of
\* similar_papers
C19_RankedByOverlapThenSearchOrder ==
    Reported =>
        LET tp == state.final_result.top_similar_papers
        IN  /\ Len(tp) = Len(state.matches_by_paper)
            /\ \A i, j \in DOMAIN tp :
                i < j => /\ tp[i].overlap_pct >= tp[j].overlap_pct
                         /\ tp[i].overlap_pct = tp[j].overlap_pct
                                => SearchRank(tp[i].paper_url) < SearchRank(tp[j].paper_url)

\* three candidates: the last has the highest overlap and is listed first,
\* the other two tie at a positive overlap and keep their search order
C19_Witness ==
    /\ Reported
    /\ Len(state.final_result.top_similar_papers) = 3
    /\ LET tp == state.final_result.top_similar_papers
       IN  /\ tp[1].paper_url = state.similar_papers[3].url
           /\ tp[1].overlap_pct > tp[2].overlap_pct
           /\ tp[2].overlap_pct = tp[3].overlap_pct
           /\ tp[2].overlap_pct > 0
           /\ tp[2].paper_url = state.similar_papers[1].url

-----------------------------------------------------------------------------
(* A stage that raises *)

\* the context fields written by the stage that follows the last completed one
FailingStageFields ==
    IF "current_step" \notin DOMAIN state
    THEN {"raw_documents", "user_paper_struct"}
    ELSE CASE state.current_step = "research_search" ->
                {"search_query", "similar_papers"}
           [] state.current_step = "concept_extraction" ->
                {"user_concepts", "internet_concepts"}
           [] state.current_step = "similarity_matching" ->
                {"matches_by_paper"}
           [] state.current_step = "risk_scoring" ->
                {"analysis_scores", "top_similar_papers", "final_result"}
           [] OTHER -> {}

\* C20: when a stage has raised, none of the fields it writes has been
\* written (each is unset when the stage starts) and there is no final_result
C20_FailedStageAppliesNothing ==
    pc = "failed"
        => /\ FailingStageFields \cap DOMAIN state = {}
           /\ "final_result" \notin DOMAIN state

\* the match stage raised TypeError after it had reset matches_by_paper
C20_Witness ==
    /\ pc = "failed"
    /\ error = "TypeError"
    /\ state.current_step = "similarity_matching"
    /\ "matches_by_paper" \in DOMAIN state
    /\ state.matches_by_paper = <<>>

-----------------------------------------------------------------------------
(* Properties of detect_plagiarism *)

RouteDone == args.fn = "detect_plagiarism" /\ pc = "route_done"

\* the status of the rejection raised for the upload (0: none is raised)
RejectionOf(upload) ==
    IF ~upload.pdf_name THEN 400
    ELSE IF upload.too_large THEN 413
    ELSE IF upload.pages = 0 THEN 400
    ELSE 0

\* C21: an upload rejected as input (not a .pdf name, above 50 MB, or zero
\* pages) gets the status of its rejection (400, 413, 400), not that of an
\* internal failure, and the pipeline is not started for it
C21_RejectionSurfacedAsRaised ==
    (/\ RouteDone
     /\ ret.status = "raised"
     /\ ret.cause.type = "HTTPException")
        => /\ ret.http_status = RejectionOf(args.upload)
           /\ ~ret.pipeline_started

\* an upload without a .pdf name was answered with status 500
C21_Witness ==
    /\ RouteDone
    /\ ret.status = "raised"
    /\ ~args.upload.pdf_name
    /\ ret.cause = HTTPException(400)
    /\ ret.http_status = 500
    /\ ~ret.pipeline_started

\* C22: once the handler has returned control (by a response or by an
\* exception), the upload directory it created, if any, no longer exists
C22_TempDirRemovedOnEveryExit ==
    (RouteDone /\ ret.created # None)
        => Val(ret.created) \notin files.temp_dirs

\* the pipeline failed after the directory was created, and the directory
\* is gone
C22_Witness ==
    /\ RouteDone
    /\ ret.created # None
    /\ ret.status = "raised"
    /\ ret.pipeline_started
    /\ ret.cause.type = "TypeError"
    /\ files.temp_dirs = {}

-----------------------------------------------------------------------------
(* Independence of concurrent requests *)

\* C23: no file is written by both requests: data.txt has at most one
\* writer, and an upload directory belongs to the one request that made it
C23_RequestsShareNoFile ==
    /\ Cardinality(files.data_txt.writers) <= 1
    /\ \A d \in files.temp_dirs :
            Cardinality({r \in Requests : d = temp_dir_of(r)}) = 1

\* both requests wrote data.txt while each still had its own directory
C23_Witness ==
    /\ args.fn = "concurrent_requests"
    /\ files.data_txt.writers = Requests
    /\ files.temp_dirs = {temp_dir_of(r) : r \in Requests}
    /\ \A r \in Requests : pc[r] = "agent3_extract"

-----------------------------------------------------------------------------
(* Properties of extract_advanced_concepts *)

ExtractCalled == args.fn = "extract_advanced_concepts"

\* an entry that is a concept record: an object with a name and one of the
\* concept types, in either case
WellFormedEntry(e) ==
    /\ e.kind = "object"
    /\ e.name # "null"
    /\ e.type \in {"ALGORITHM", "algorithm", "TECHNIQUE", "technique"}

\* C24: whatever the service answered, extract_advanced_concepts does not
\* raise, and every well-formed entry of the answer is among the concepts
\* returned
C24_ToleratesMalformedResponses ==
    ExtractCalled
        => /\ ret.status \in {"pending", "returned"}
           /\ ret.status = "returned"
                => \A i \in DOMAIN raw_concepts_of(args.response) :
                        WellFormedEntry(raw_concepts_of(args.response)[i])
                            => \E j \in DOMAIN ret.value :
                                    ret.value[j].name = raw_concepts_of(args.response)[i].name

\* an array holding an entry that is not an object made the call raise
C24_Witness ==
    /\ ExtractCalled
    /\ args.response.content = "json_array"
    /\ \E i \in DOMAIN args.response.entries :
            WellFormedEntry(args.response.entries[i])
    /\ \E i \in DOMAIN args.response.entries :
            args.response.entries[i].kind = "string"
    /\ ret.status = "raised"
    /\ ret.error = "AttributeError"

-----------------------------------------------------------------------------
(* Order of the stages *)

Nodes == <<"agent1_parse", "agent2_search", "agent3_extract", "agent4_match",
           "agent5_report", "END">>

NodeRank(node) == CHOOSE i \in DOMAIN Nodes : Nodes[i] = node

Steps == <<"research_search", "concept_extraction", "similarity_matching",
           "risk_scoring", "complete">>

\* how many stages current_step says have returned
step_rank(st) ==
    IF "current_step" \in DOMAIN st
    THEN CHOOSE i \in DOMAIN Steps : Steps[i] = st.current_step
    ELSE 0

progress_of(st) == IF "progress" \in DOMAIN st THEN st.progress ELSE 0

\* one step of a run: the node that runs is not a finished one, it ends in a
\* failure or hands over to the next node in the order, whose predecessors
\* have all returned; current_step and progress do not go back, progress is
\* 20 per returned stage, and 'complete' goes with final_result
StageStep ==
    /\ pc \in SeqToSet(Nodes) \ {"END"}
    /\ pc' = "failed" \/ (pc' \in SeqToSet(Nodes) /\ NodeRank(pc') = NodeRank(pc) + 1)
    /\ pc' # "failed" => step_rank(state') = NodeRank(pc') - 1
    /\ step_rank(state') >= step_rank(state)
    /\ progress_of(state') >= progress_of(state)
    /\ progress_of(state') = 20 * step_rank(state')
    /\ (step_rank(state') = Len(Steps)) <=> ("final_result" \in DOMAIN state')

\* C25: the stages run in the order parse, search, extract, match, score, each
\* at most once and each after the one before it returned; current_step and
\* progress only move forward through 20, 40, 60, 80, 100; current_step is
\* 'complete' exactly when final_result is written; and every run eventually
\* completes or fails
C25_SequentialAndTerminating ==
    /\ [][StageStep]_vars
    /\ <>(pc \in {"END", "failed"})
    /\ [](pc = "END" => step_rank(state) = Len(Steps))

\* a run that went through all five stages and wrote final_result
C25_Witness ==
    /\ args.fn = "none"
    /\ pc = "END"
    /\ state.current_step = "complete"
    /\ state.progress = 100
    /\ "final_result" \in DOMAIN state
    /\ {"raw_documents", "similar_papers", "user_concepts", "matches_by_paper",
        "analysis_scores"} \subseteq DOMAIN state

-----------------------------------------------------------------------------
(* Fields written by each stage *)

\* the fields of PlagiarismAnalysisState each node assigns
Owned ==
    [agent1_parse |-> {"raw_documents", "user_paper_struct"},
     agent2_search |-> {"search_query", "similar_papers"},
     agent3_extract |-> {"user_concepts", "internet_concepts"},
     agent4_match |-> {"matches_by_paper"},
     agent5_report |-> {"analysis_scores", "top_similar_papers", "final_result"}]

Bookkeeping == {"current_step", "progress"}

\* the fields whose value differs between two contexts
Changed(before, after) ==
    {k \in DOMAIN before \cup DOMAIN after :
        \/ k \notin DOMAIN before
        \/ k \notin DOMAIN after
        \/ after[k] # before[k]}

\* the fields some earlier node owns
OwnedBefore(node) ==
    UNION {Owned[n] : n \in {m \in DOMAIN Owned : NodeRank(m) < NodeRank(node)}}

\* one step of a node: the fields it changes, and the fields it keeps
StageFrame ==
    pc \in DOMAIN Owned
        => /\ Changed(state, state') \subseteq Owned[pc] \cup Bookkeeping
           /\ \A k \in (OwnedBefore(pc) \cup DOMAIN initial_state) \cap DOMAIN state :
                k \in DOMAIN state' /\ state'[k] = state[k]

\* C26: a stage changes only the fields it owns, current_step and progress;
\* what an earlier stage wrote (and what the run started from) stays as it was
C26_StagesWriteOwnFields == [][StageFrame]_vars

\* the last stage has run on a context holding a loaded document and the
\* fields of the four stages before it
C26_Witness ==
    /\ args.fn = "none"
    /\ pc = "END"
    /\ OwnedBefore("agent5_report") \subseteq DOMAIN state
    /\ Owned["agent5_report"] \subseteq DOMAIN state
    /\ state.raw_documents.pages > 0
    /\ state.user_paper_struct.title # ""

-----------------------------------------------------------------------------
(* The sample of matches handed to generate_research_recommendations *)

\* the report stage ran on a context and asked for recommendations
RecommendationsRequested ==
    /\ args.fn = "none"
    /\ pc \in {"END", "failed"}
    /\ "internet_concepts" \in DOMAIN state
    /\ "matches_by_paper" \in DOMAIN state
    /\ llm_calls # <<>>

\* C27: when a candidate has a match, the sample handed to
\* generate_research_recommendations is not empty and leaves out no match
\* with a strictly higher similarity than one it holds
C27_SampleIsHighestOverlap ==
    (RecommendationsRequested /\ all_matches(state.matches_by_paper) # <<>>)
        => LET sample == llm_calls[Len(llm_calls)].matches
               left_out == SeqToSet(all_matches(state.matches_by_paper))
                                \ SeqToSet(sample)
           IN  /\ sample # <<>>
               /\ \A m \in SeqToSet(sample) : \A o \in left_out :
                        o.similarity_score <= m.similarity_score

\* the first candidate has no match, a later one has, and the sample is empty
C27_Witness ==
    /\ RecommendationsRequested
    /\ state.matches_by_paper[1].matches = <<>>
    /\ all_matches(state.matches_by_paper) # <<>>
    /\ llm_calls[Len(llm_calls)].matches = <<>>

-----------------------------------------------------------------------------
(* Strength labels and recorded scores of cross_similarity_analysis *)

\* the matches of a list labelled STRONG
strong_count(ms) == Len(SelectSeq(ms, LAMBDA m : m.match_strength = "STRONG"))

\* C28: a returned match is labelled STRONG exactly when its recorded
\* similarity_score is above 0.85, so each candidate has as many STRONG
\* matches as matches counted as high risk from the recorded scores
C28_StrengthAgreesWithRecordedScore ==
    MatcherReturned =>
        \A i \in DOMAIN ret.value :
            /\ \A j \in DOMAIN ret.value[i].matches :
                    (ret.value[i].matches[j].match_strength = "STRONG")
                        <=> (ret.value[i].matches[j].similarity_score > 850)
            /\ strong_count(ret.value[i].matches) = high_risk_count(ret.value[i].matches)

\* a returned match labelled STRONG whose recorded score is 0.85
C28_Witness ==
    /\ MatcherReturned
    /\ \E i \in DOMAIN ret.value : \E j \in DOMAIN ret.value[i].matches :
            /\ ret.value[i].matches[j].match_strength = "STRONG"
            /\ ret.value[i].matches[j].similarity_score = 850
            /\ strong_count(ret.value[i].matches)
                    > high_risk_count(ret.value[i].matches)

====
